---- MODULE Spec2Model ----
(***************************************************************************)
(* ResponsiveConductor: the column width resolver determineColumnWidths    *)
(* and its debug-time validator determineColumnWidthsDebugs               *)
(* (src/src/hooks/determineColumnWidths.ts), driven by the container width *)
(* that useContentWidth measures and ResponsiveConductor re-renders on.    *)
(*                                                                         *)
(* Numbers are IEEE doubles in the source.  The model measures every width *)
(* in units of 1/Unit pixel, Unit being a common multiple of every         *)
(* possible number of growable columns, so that the one division of the    *)
(* algorithm (line 198) is exact.  An absent optional flag is FALSE.       *)
(***************************************************************************)
EXTENDS Integers, Sequences, FiniteSets

\* ---------------------------------------------------------------- bounds
MaxSchemas == 3
MaxWidth == 2
MaxContentWidth == 5

RECURSIVE Gcd(_, _)
Gcd(a, b) == IF b = 0 THEN a ELSE Gcd(b, a % b)

RECURSIVE LcmUpTo(_)
LcmUpTo(n) == IF n <= 1 THEN 1 ELSE (LcmUpTo(n - 1) * n) \div Gcd(LcmUpTo(n - 1), n)

\* one pixel, in model units
Unit == LcmUpTo(MaxSchemas)

\* ------------------------------------------------------- program constants
DEBUG == TRUE

ErrConsecutive == "You must have consecutive shrinkPriorities, input error!"
ErrOverflow == "You cannot have minWidths larger than the contentSize, overflow expected!"
ErrMinMax == "You cannot have the schema.minWidth larger than the schema.maxWidth, input error!"
ErrSamePriority == "You cannot have the same shrinkPriority for multiple schemas, input error!"
ErrSameKey == "You cannot have the same key for multiple schemas, input error!"
NoError == "none"

\* ----------------------------------------------------------------- helpers
Min(a, b) == IF a < b THEN a ELSE b

RECURSIVE SumSeq(_)
SumSeq(s) == IF s = <<>> THEN 0 ELSE Head(s) + SumSeq(Tail(s))

\* Array.prototype.map with (schema) => schema.minWidth, .maxWidth, .shrinkPriority
minWidthsOf(s) == [i \in 1..Len(s) |-> s[i].minWidth]
maxWidthsOf(s) == [i \in 1..Len(s) |-> s[i].maxWidth]
shrinkPrioritiesOf(s) == [i \in 1..Len(s) |-> s[i].shrinkPriority]

\* Array.prototype.sort((a, b) => a - b) on numbers: stable, ascending
RECURSIVE InsertNumber(_, _)
InsertNumber(s, x) ==
  IF s = <<>> THEN <<x>>
  ELSE IF Head(s) <= x THEN <<Head(s)>> \o InsertNumber(Tail(s), x)
       ELSE <<x>> \o s

RECURSIVE SortNumbers(_)
SortNumbers(s) ==
  IF s = <<>> THEN <<>>
  ELSE InsertNumber(SortNumbers(SubSeq(s, 1, Len(s) - 1)), s[Len(s)])

\* faulty variant of InsertSchema: the comparator reversed (b.shrinkPriority - a.shrinkPriority)
RECURSIVE InsertSchemaDescending(_, _)
InsertSchemaDescending(s, x) ==
  IF s = <<>> THEN <<x>>
  ELSE IF Head(s).shrinkPriority >= x.shrinkPriority
       THEN <<Head(s)>> \o InsertSchemaDescending(Tail(s), x)
       ELSE <<x>> \o s

\* Array.prototype.sort((a, b) => a.shrinkPriority - b.shrinkPriority):
\* stable, ascending in shrinkPriority
RECURSIVE InsertSchema(_, _)
InsertSchema(s, x) ==
  IF s = <<>> THEN <<x>>
  ELSE IF Head(s).shrinkPriority <= x.shrinkPriority
       THEN <<Head(s)>> \o InsertSchema(Tail(s), x)
       ELSE <<x>> \o s

RECURSIVE SortByShrinkPriority(_)
SortByShrinkPriority(s) ==
  IF s = <<>> THEN <<>>
  ELSE InsertSchema(SortByShrinkPriority(SubSeq(s, 1, Len(s) - 1)), s[Len(s)])

\* ---------------------------------------------------------------- validator
\* the error determineColumnWidthsDebugs throws, or NoError when it returns
determineColumnWidthsDebugs(contentWidth, schemas) ==
  LET sortedShrinkPriorities == SortNumbers(shrinkPrioritiesOf(schemas))
      sumOfTheirMinWidths == SumSeq(minWidthsOf(schemas))
      n == Len(schemas)
  IN  IF ~DEBUG THEN NoError
      ELSE IF \E i \in 1..(n - 1) :
                sortedShrinkPriorities[i] + 1 # sortedShrinkPriorities[i + 1]
        THEN ErrConsecutive
      ELSE IF sumOfTheirMinWidths > contentWidth THEN ErrOverflow
      ELSE IF \E i \in 1..n : schemas[i].minWidth > schemas[i].maxWidth
        THEN ErrMinMax
      ELSE IF \E i, j \in 1..n :
                i < j /\ schemas[i].shrinkPriority = schemas[j].shrinkPriority
        THEN ErrSamePriority
      ELSE IF \E i, j \in 1..n : i < j /\ schemas[i].key = schemas[j].key
        THEN ErrSameKey
      ELSE NoError

\* ----------------------------------------------------------------- resolver
isHideable(schema) == schema.isAllowedToHide
isNotHideable(schema) == ~schema.isAllowedToHide
isGrowable(schema) == schema.isAllowedToGrowBeyondMaxWidth

\* lines 134-156: the backward loop over initialWidths, from index i down
RECURSIVE shrinkLoop(_, _, _, _)
shrinkLoop(visibleSchemas, initialWidths, i, remainingContentWidth) ==
  IF i >= 1 /\ remainingContentWidth < 0
  THEN LET excessWidth == initialWidths[i] - visibleSchemas[i].minWidth
           reduceBy == Min(-remainingContentWidth, excessWidth)
       IN  shrinkLoop(visibleSchemas,
                      [initialWidths EXCEPT ![i] = @ - reduceBy],
                      i - 1,
                      remainingContentWidth + reduceBy)
  ELSE [initialWidths |-> initialWidths,
        remainingContentWidth |-> remainingContentWidth]

\* faulty variant of reintroduceLoop: admits only on remainingContentWidth > minWidth
RECURSIVE reintroduceLoopStrict(_, _, _, _)
reintroduceLoopStrict(hiddenSchemas, visibleSchemas, initialWidths, remainingContentWidth) ==
  IF hiddenSchemas = <<>>
  THEN [visibleSchemas |-> visibleSchemas,
        initialWidths |-> initialWidths,
        remainingContentWidth |-> remainingContentWidth]
  ELSE LET hidden == Head(hiddenSchemas)
       IN  IF remainingContentWidth > hidden.minWidth
           THEN LET width == Min(hidden.maxWidth, remainingContentWidth)
                IN  reintroduceLoopStrict(Tail(hiddenSchemas),
                                          Append(visibleSchemas, hidden),
                                          Append(initialWidths, width),
                                          remainingContentWidth - width)
           ELSE reintroduceLoopStrict(Tail(hiddenSchemas), visibleSchemas,
                                      initialWidths, remainingContentWidth)

\* faulty variant of reintroduceLoop: an admitted schema is put in front of
\* visibleSchemas (unshift) instead of behind it (push)
RECURSIVE reintroduceLoopUnshift(_, _, _, _)
reintroduceLoopUnshift(hiddenSchemas, visibleSchemas, initialWidths, remainingContentWidth) ==
  IF hiddenSchemas = <<>>
  THEN [visibleSchemas |-> visibleSchemas,
        initialWidths |-> initialWidths,
        remainingContentWidth |-> remainingContentWidth]
  ELSE LET hidden == Head(hiddenSchemas)
       IN  IF remainingContentWidth >= hidden.minWidth
           THEN LET width == Min(hidden.maxWidth, remainingContentWidth)
                IN  reintroduceLoopUnshift(Tail(hiddenSchemas),
                                           <<hidden>> \o visibleSchemas,
                                           <<width>> \o initialWidths,
                                           remainingContentWidth - width)
           ELSE reintroduceLoopUnshift(Tail(hiddenSchemas), visibleSchemas,
                                       initialWidths, remainingContentWidth)

\* lines 160-166: the walk over hiddenSchemas
RECURSIVE reintroduceLoop(_, _, _, _)
reintroduceLoop(hiddenSchemas, visibleSchemas, initialWidths, remainingContentWidth) ==
  IF hiddenSchemas = <<>>
  THEN [visibleSchemas |-> visibleSchemas,
        initialWidths |-> initialWidths,
        remainingContentWidth |-> remainingContentWidth]
  ELSE LET hidden == Head(hiddenSchemas)
       IN  IF remainingContentWidth >= hidden.minWidth
           THEN LET width == Min(hidden.maxWidth, remainingContentWidth)
                IN  reintroduceLoop(Tail(hiddenSchemas),
                                    Append(visibleSchemas, hidden),
                                    Append(initialWidths, width),
                                    remainingContentWidth - width)
           ELSE reintroduceLoop(Tail(hiddenSchemas), visibleSchemas,
                                initialWidths, remainingContentWidth)

\* faulty variant of distributeLoop: the walk goes from the last visible schema
\* to the first (the i-th step serves index length + 1 - i)
RECURSIVE distributeLoopFromEnd(_, _, _, _)
distributeLoopFromEnd(visibleSchemas, calculatedWidths, i, remainingContentWidth) ==
  IF remainingContentWidth > 0 /\ i <= Len(visibleSchemas)
  THEN LET index == Len(visibleSchemas) + 1 - i
           schema == visibleSchemas[index]
           currentWidth == calculatedWidths[index]
       IN  IF currentWidth < schema.maxWidth
           THEN LET additionalSpace ==
                      Min(schema.maxWidth - currentWidth, remainingContentWidth)
                IN  distributeLoopFromEnd(visibleSchemas,
                                          [calculatedWidths EXCEPT ![index] = @ + additionalSpace],
                                          i + 1,
                                          remainingContentWidth - additionalSpace)
           ELSE distributeLoopFromEnd(visibleSchemas, calculatedWidths, i + 1,
                                      remainingContentWidth)
  ELSE calculatedWidths

\* faulty variant of distributeLoop: additionalSpace not capped by remainingContentWidth
RECURSIVE distributeLoopUncapped(_, _, _, _)
distributeLoopUncapped(visibleSchemas, calculatedWidths, i, remainingContentWidth) ==
  IF remainingContentWidth > 0 /\ i <= Len(visibleSchemas)
  THEN LET schema == visibleSchemas[i]
           currentWidth == calculatedWidths[i]
       IN  IF currentWidth < schema.maxWidth
           THEN LET additionalSpace == schema.maxWidth - currentWidth
                IN  distributeLoopUncapped(visibleSchemas,
                                           [calculatedWidths EXCEPT ![i] = @ + additionalSpace],
                                           i + 1,
                                           remainingContentWidth - additionalSpace)
           ELSE distributeLoopUncapped(visibleSchemas, calculatedWidths, i + 1,
                                       remainingContentWidth)
  ELSE calculatedWidths

\* lines 220-235: the forward loop over calculatedWidths, from index i up
RECURSIVE distributeLoop(_, _, _, _)
distributeLoop(visibleSchemas, calculatedWidths, i, remainingContentWidth) ==
  IF remainingContentWidth > 0 /\ i <= Len(visibleSchemas)
  THEN LET schema == visibleSchemas[i]
           currentWidth == calculatedWidths[i]
       IN  IF currentWidth < schema.maxWidth
           THEN LET additionalSpace ==
                      Min(schema.maxWidth - currentWidth, remainingContentWidth)
                IN  distributeLoop(visibleSchemas,
                                   [calculatedWidths EXCEPT ![i] = @ + additionalSpace],
                                   i + 1,
                                   remainingContentWidth - additionalSpace)
           ELSE distributeLoop(visibleSchemas, calculatedWidths, i + 1,
                               remainingContentWidth)
  ELSE calculatedWidths

\* widthMap after visibleSchemas.forEach((schema, i) => widthMap[schema.key] = widths[i]):
\* a later assignment to the same key overwrites an earlier one
widthMapOf(visibleSchemas, widths) ==
  LET keys == {visibleSchemas[i].key : i \in 1..Len(visibleSchemas)}
      last(k) == CHOOSE i \in 1..Len(visibleSchemas) :
                   /\ visibleSchemas[i].key = k
                   /\ \A j \in 1..Len(visibleSchemas) :
                        visibleSchemas[j].key = k => j <= i
  IN  [k \in keys |-> widths[last(k)]]

\* faulty variant of mapBack: the widths come back in shrinkPriority order, not input order
mapBackInPriorityOrder(schemas, widthMap) ==
  LET sorted == SortByShrinkPriority(schemas)
  IN  [i \in 1..Len(schemas) |->
         IF sorted[i].key \in DOMAIN widthMap THEN widthMap[sorted[i].key] ELSE 0]

\* schemas.map((schema) => widthMap[schema.key] ?? 0)
mapBack(schemas, widthMap) ==
  [i \in 1..Len(schemas) |->
     IF schemas[i].key \in DOMAIN widthMap THEN widthMap[schemas[i].key] ELSE 0]

\* lines 104-156: partition, sort, initial sizing, overflow shrink
sizing(contentWidth, schemas) ==
  LET visibleSchemas == SortByShrinkPriority(SelectSeq(schemas, isNotHideable))
      hiddenSchemas == SortByShrinkPriority(SelectSeq(schemas, isHideable))
      initialWidths == maxWidthsOf(visibleSchemas)
      totalInitialWidths == SumSeq(initialWidths)
      shrunk == IF contentWidth - totalInitialWidths < 0
                THEN shrinkLoop(visibleSchemas, initialWidths, Len(visibleSchemas),
                                contentWidth - totalInitialWidths)
                ELSE [initialWidths |-> initialWidths,
                      remainingContentWidth |-> contentWidth - totalInitialWidths]
  IN  [visibleSchemas |-> visibleSchemas,
       hiddenSchemas |-> hiddenSchemas,
       initialWidths |-> shrunk.initialWidths,
       remainingContentWidth |-> shrunk.remainingContentWidth]

\* lines 104-167: sizing, then the reintroduction of hidden schemas
admission(contentWidth, schemas) ==
  LET sized == sizing(contentWidth, schemas)
  IN  IF sized.remainingContentWidth > 0
      THEN reintroduceLoop(sized.hiddenSchemas, sized.visibleSchemas,
                           sized.initialWidths, sized.remainingContentWidth)
      ELSE [visibleSchemas |-> sized.visibleSchemas,
            initialWidths |-> sized.initialWidths,
            remainingContentWidth |-> sized.remainingContentWidth]

\* lines 160-166: remainingContentWidth when the walk reaches the schema `key`
RECURSIVE remainingAt(_, _, _)
remainingAt(hiddenSchemas, remainingContentWidth, key) ==
  IF hiddenSchemas = <<>> \/ Head(hiddenSchemas).key = key
  THEN remainingContentWidth
  ELSE LET hidden == Head(hiddenSchemas)
       IN  IF remainingContentWidth >= hidden.minWidth
           THEN remainingAt(Tail(hiddenSchemas),
                            remainingContentWidth - Min(hidden.maxWidth, remainingContentWidth),
                            key)
           ELSE remainingAt(Tail(hiddenSchemas), remainingContentWidth, key)

\* lines 158-167: the slack left for the hideable schema `key` at its turn; what
\* the sizing left over when the walk is not entered at all
slackAtTurn(contentWidth, schemas, key) ==
  LET sized == sizing(contentWidth, schemas)
  IN  IF sized.remainingContentWidth > 0
      THEN remainingAt(sized.hiddenSchemas, sized.remainingContentWidth, key)
      ELSE sized.remainingContentWidth

\* the branch of lines 169-244 the call takes
branchOf(contentWidth, schemas) ==
  LET adm == admission(contentWidth, schemas)
      sumOfMinWidths == SumSeq(minWidthsOf(adm.visibleSchemas))
      sumOfMaxWidths == SumSeq(maxWidthsOf(adm.visibleSchemas))
  IN  IF sumOfMinWidths > contentWidth THEN "fallback"
      ELSE IF contentWidth >= sumOfMaxWidths THEN "slack"
      ELSE "constrained"

\* faulty variant of growLoop: the extra space is added to every visible schema
growLoopEveryone(contentWidth, visibleSchemas, initialWidths) ==
  LET sumOfMaxWidths == SumSeq(maxWidthsOf(visibleSchemas))
      extraSpace == contentWidth - sumOfMaxWidths
      numGrowableElements == Len(SelectSeq(visibleSchemas, isGrowable))
      additionalWidthPerElement ==
        IF numGrowableElements = 0 THEN 0 ELSE extraSpace \div numGrowableElements
  IN  [index \in 1..Len(visibleSchemas) |->
         initialWidths[index] + additionalWidthPerElement]

\* faulty variant of growLoop: the extra space is divided by the number of visible schemas
growLoopOverVisible(contentWidth, visibleSchemas, initialWidths) ==
  LET sumOfMaxWidths == SumSeq(maxWidthsOf(visibleSchemas))
      extraSpace == contentWidth - sumOfMaxWidths
      additionalWidthPerElement == extraSpace \div Len(visibleSchemas)
  IN  [index \in 1..Len(visibleSchemas) |->
         IF visibleSchemas[index].isAllowedToGrowBeyondMaxWidth
         THEN initialWidths[index] + additionalWidthPerElement
         ELSE initialWidths[index]]

\* lines 190-205: initialWidths after the extra space is handed out
growLoop(contentWidth, visibleSchemas, initialWidths) ==
  LET sumOfMaxWidths == SumSeq(maxWidthsOf(visibleSchemas))
      extraSpace == contentWidth - sumOfMaxWidths
      growableBeyondMaxSchemas == SelectSeq(visibleSchemas, isGrowable)
      numGrowableElements == Len(growableBeyondMaxSchemas)
      \* extraSpace / 0 is Infinity or NaN in the source; it is then never added
      additionalWidthPerElement ==
        IF numGrowableElements = 0 THEN 0 ELSE extraSpace \div numGrowableElements
  IN  [index \in 1..Len(visibleSchemas) |->
         IF visibleSchemas[index].isAllowedToGrowBeyondMaxWidth
         THEN initialWidths[index] + additionalWidthPerElement
         ELSE initialWidths[index]]

\* faulty variant of finalWidths: the constrained branch hands out contentWidth from zero
\* widths instead of the rest of it from the minWidths
finalWidthsFromZero(contentWidth, schemas) ==
  LET adm == admission(contentWidth, schemas)
      visibleSchemas == adm.visibleSchemas
      branch == branchOf(contentWidth, schemas)
  IN  IF branch = "fallback" THEN minWidthsOf(visibleSchemas)
      ELSE IF branch = "slack"
        THEN growLoop(contentWidth, visibleSchemas, adm.initialWidths)
      ELSE distributeLoop(visibleSchemas, [i \in 1..Len(visibleSchemas) |-> 0], 1,
                          contentWidth)

\* lines 169-244: the widths of the visible schemas, in visibleSchemas order
finalWidths(contentWidth, schemas) ==
  LET adm == admission(contentWidth, schemas)
      visibleSchemas == adm.visibleSchemas
      sumOfMinWidths == SumSeq(minWidthsOf(visibleSchemas))
      branch == branchOf(contentWidth, schemas)
  IN  IF branch = "fallback" THEN minWidthsOf(visibleSchemas)
      ELSE IF branch = "slack"
        THEN growLoop(contentWidth, visibleSchemas, adm.initialWidths)
      ELSE distributeLoop(visibleSchemas, minWidthsOf(visibleSchemas), 1,
                          contentWidth - sumOfMinWidths)

\* the outcome of one call: the error thrown, or the list returned
determineColumnWidths(contentWidth, schemas) ==
  IF Len(schemas) = 0 THEN [error |-> NoError, widths |-> <<>>]
  ELSE LET error == IF DEBUG THEN determineColumnWidthsDebugs(contentWidth, schemas)
                    ELSE NoError
       IN  IF error # NoError THEN [error |-> error, widths |-> <<>>]
           ELSE [error |-> NoError,
                 widths |-> mapBack(schemas,
                                    widthMapOf(admission(contentWidth, schemas).visibleSchemas,
                                               finalWidths(contentWidth, schemas)))]

\* ------------------------------------------------------------------- inputs
\* widths a schema or the container can have: whole pixels
Pixels(n) == {p * Unit : p \in 0..n}

\* minWidth and maxWidth of one schema
WidthPairs == Pixels(MaxWidth) \X Pixels(MaxWidth)

\* isAllowedToHide and isAllowedToGrowBeyondMaxWidth of one schema
FlagPairs == BOOLEAN \X BOOLEAN

\* shrinkPriorities of n schemas, up to a shift: a permutation of 1..n, or one
\* with its highest priority raised (a gap) or repeated (a duplicate)
PriorityLists(n) ==
  {p \in [1..n -> 1..(n + 1)] : \A q \in 1..(n - 1) : \E i \in 1..n : p[i] = q}

\* keys of n schemas, up to renaming: all distinct, or the last one a duplicate
KeyLists(n) ==
  {[i \in 1..n |-> i]} \cup {[i \in 1..n |-> IF i = n THEN 1 ELSE i]}

\* the shape the validator accepts, whatever the container width
WellFormed(n, keys, priorities, widths) ==
  /\ \A i, j \in 1..n : i # j => keys[i] # keys[j] /\ priorities[i] # priorities[j]
  /\ \A i \in 1..n : priorities[i] \in 1..n /\ widths[i][1] <= widths[i][2]

\* the flags are read by the resolver only, which a malformed list never reaches
FlagLists(n, keys, priorities, widths) ==
  IF WellFormed(n, keys, priorities, widths)
  THEN [1..n -> FlagPairs]
  ELSE {[i \in 1..n |-> <<FALSE, FALSE>>]}

MakeSchemas(n, keys, priorities, widths, flags) ==
  [i \in 1..n |->
     [key |-> keys[i],
      minWidth |-> widths[i][1],
      maxWidth |-> widths[i][2],
      shrinkPriority |-> priorities[i],
      isAllowedToHide |-> flags[i][1],
      isAllowedToGrowBeyondMaxWidth |-> flags[i][2]]]

\* -------------------------------------------------------------------- state
VARIABLES schemas, contentWidth, columnsSizes
vars == <<schemas, contentWidth, columnsSizes>>

Init ==
  /\ \E n \in 0..MaxSchemas :
       \E keys \in KeyLists(n), priorities \in PriorityLists(n),
          widths \in [1..n -> WidthPairs] :
         \E flags \in FlagLists(n, keys, priorities, widths) :
           schemas = MakeSchemas(n, keys, priorities, widths, flags)
  /\ contentWidth \in Pixels(MaxContentWidth)
  /\ columnsSizes = determineColumnWidths(contentWidth, schemas)

updateSize(width) ==
  /\ width # contentWidth
  /\ contentWidth' = width
  /\ columnsSizes' = determineColumnWidths(width, schemas)
  /\ UNCHANGED schemas

Next == \E width \in {contentWidth - Unit, contentWidth + Unit} \cap Pixels(MaxContentWidth) :
          updateSize(width)

Spec == Init /\ [][Next]_vars

\* ------------------------------------------------------- reading the state
Returned == columnsSizes.error = NoError
Threw == columnsSizes.error # NoError
widths == columnsSizes.widths
Indices == 1..Len(schemas)
Hideables == {i \in Indices : schemas[i].isAllowedToHide}
NonHideables == {i \in Indices : ~schemas[i].isAllowedToHide}
SumOver(S, f) == SumSeq([j \in 1..Len(schemas) |-> IF j \in S THEN f[j] ELSE 0])
minWidths == [i \in Indices |-> schemas[i].minWidth]
maxWidths == [i \in Indices |-> schemas[i].maxWidth]
MinWithinMax == \A i \in Indices : schemas[i].minWidth <= schemas[i].maxWidth
DistinctKeys == \A i, j \in Indices : i # j => schemas[i].key # schemas[j].key
DistinctPriorities ==
  \A i, j \in Indices : i # j => schemas[i].shrinkPriority # schemas[j].shrinkPriority
ConsecutivePriorities ==
  \A i \in Indices :
    \/ \A j \in Indices : schemas[j].shrinkPriority <= schemas[i].shrinkPriority
    \/ \E j \in Indices : schemas[j].shrinkPriority = schemas[i].shrinkPriority + 1
\* a schema list with distinct keys, distinct consecutive priorities, min <= max
ValidSchemas == MinWithinMax /\ DistinctKeys /\ DistinctPriorities /\ ConsecutivePriorities
\* the visible set of the current call and the branch it takes
Visible == admission(contentWidth, schemas).visibleSchemas
VisibleKeys == {Visible[j].key : j \in 1..Len(Visible)}
Branch == branchOf(contentWidth, schemas)

\* ------------------------------------------------------------------- claims

\* C1: for a non-empty schema list with minWidth <= maxWidth everywhere and the
\* sum of all minWidths (hideable ones included) within contentWidth, the widths
\* determineColumnWidths returns sum to at most contentWidth.
C1_NoOverflowWhenPossible ==
  (/\ Len(schemas) > 0
   /\ MinWithinMax
   /\ SumOver(Indices, minWidths) <= contentWidth
   /\ Returned)
  => SumSeq(widths) <= contentWidth

\* a call that returned three columns filling the container exactly, one of them
\* a hideable column that was admitted and one squeezed below its maxWidth
C1_Witness ==
  /\ Returned /\ Len(schemas) = 3
  /\ SumSeq(widths) = contentWidth
  /\ \E i \in Hideables : widths[i] > 0
  /\ \E i \in Indices : 0 < widths[i] /\ widths[i] < schemas[i].maxWidth

\* C2 (as claimed): whenever the minWidths of the non-hideable items of a valid,
\* non-empty schema list sum to more than contentWidth, the call raises no error
\* and returns minWidth for every non-hideable item and 0 for every hideable one.
C2_FloorOverflowFallback ==
  (/\ Len(schemas) > 0
   /\ ValidSchemas
   /\ SumOver(NonHideables, minWidths) > contentWidth)
  => /\ Returned
     /\ Len(widths) = Len(schemas)
     /\ \A i \in Indices :
          widths[i] = IF schemas[i].isAllowedToHide THEN 0 ELSE schemas[i].minWidth

\* C3 (as claimed): whenever the non-hideable items of a valid schema list
\* satisfy sum(minWidth) <= contentWidth <= sum(maxWidth), the call returns
\* normally, every hideable item gets 0 and the non-hideable widths sum to
\* exactly contentWidth, whatever the minWidths of the hideable items.
C3_HidingUnderPressure ==
  (/\ ValidSchemas
   /\ SumOver(NonHideables, minWidths) <= contentWidth
   /\ contentWidth <= SumOver(NonHideables, maxWidths))
  => /\ Returned
     /\ Len(widths) = Len(schemas)
     /\ \A i \in Hideables : widths[i] = 0
     /\ SumOver(NonHideables, widths) = contentWidth

\* C4: whenever the call returns, every non-zero width is at least its schema's
\* minWidth, every non-hideable item gets at least its minWidth, and in the
\* fallback branch every visible item gets exactly its minWidth.
C4_FloorRespect ==
  Returned =>
    \A i \in Indices :
      /\ widths[i] # 0 => widths[i] >= schemas[i].minWidth
      /\ ~schemas[i].isAllowedToHide => widths[i] >= schemas[i].minWidth
      /\ (Branch = "fallback" /\ schemas[i].key \in VisibleKeys)
           => widths[i] = schemas[i].minWidth

\* a call that squeezed a non-hideable column down to exactly its positive
\* minWidth while another column kept more than its minWidth
C4_Witness ==
  /\ Returned /\ Branch = "constrained"
  /\ \E i \in NonHideables :
       /\ widths[i] = schemas[i].minWidth
       /\ 0 < schemas[i].minWidth /\ schemas[i].minWidth < schemas[i].maxWidth
  /\ \E i \in Indices : widths[i] > schemas[i].minWidth

\* C5: whenever the call returns, a schema that may not grow beyond maxWidth
\* gets at most its maxWidth.
C5_CeilingRespect ==
  Returned =>
    \A i \in Indices :
      ~schemas[i].isAllowedToGrowBeyondMaxWidth => widths[i] <= schemas[i].maxWidth

\* a call with spare room in which a growable column grew beyond its maxWidth
\* next to a column that may not grow and sits at its positive maxWidth
C5_Witness ==
  /\ Returned /\ Branch = "slack"
  /\ \E i \in Indices :
       schemas[i].isAllowedToGrowBeyondMaxWidth /\ widths[i] > schemas[i].maxWidth
  /\ \E i \in Indices :
       /\ ~schemas[i].isAllowedToGrowBeyondMaxWidth
       /\ widths[i] = schemas[i].maxWidth /\ widths[i] > 0

\* C6: whenever the call returns, the result is as long as the schema list,
\* result[i] is the width computed for the visible schema with schemas[i]'s
\* key, a hideable item that was not admitted gets 0, and the empty list
\* yields the empty list.
C6_OrderAndLength ==
  Returned =>
    /\ Len(widths) = Len(schemas)
    /\ \A j \in 1..Len(Visible) : \A i \in Indices :
         schemas[i].key = Visible[j].key
           => widths[i] = finalWidths(contentWidth, schemas)[j]
    /\ \A i \in Indices : schemas[i].key \notin VisibleKeys => widths[i] = 0
    /\ Len(schemas) = 0 => widths = <<>>

\* a call on three schemas listed in an order that is not their priority
\* order, two of them with different non-zero widths and one hidden
C6_Witness ==
  /\ Returned /\ Len(schemas) = 3
  /\ schemas[1].shrinkPriority > schemas[3].shrinkPriority
  /\ \E i, j \in Indices : 0 < widths[i] /\ widths[i] < widths[j]
  /\ \E i \in Hideables : schemas[i].key \notin VisibleKeys

\* C7 (as claimed): when two schemas share a shrinkPriority (and nothing else
\* is wrong with the list), the validator raises the duplicate-shrinkPriority
\* error, not the one of non-consecutive priorities.
C7_DuplicatePriorityError ==
  (/\ Len(schemas) > 0
   /\ ~DistinctPriorities
   /\ MinWithinMax /\ DistinctKeys
   /\ SumOver(Indices, minWidths) <= contentWidth)
  => columnsSizes.error = ErrSamePriority

\* C8: when contentWidth is at least the sum of maxWidth over the visible set,
\* a visible item that may not grow gets exactly maxWidth and a visible growable
\* item gets maxWidth + (contentWidth - sumMax) / n, n the number of visible
\* growable items; with n = 0 every visible item gets exactly maxWidth.
C8_SlackBranch ==
  LET sumMax == SumSeq(maxWidthsOf(Visible))
      n == Cardinality({i \in Indices : schemas[i].key \in VisibleKeys
                                          /\ schemas[i].isAllowedToGrowBeyondMaxWidth})
  IN  (Returned /\ contentWidth >= sumMax) =>
        \A i \in Indices :
          schemas[i].key \in VisibleKeys =>
            IF schemas[i].isAllowedToGrowBeyondMaxWidth
            THEN n * widths[i] = n * schemas[i].maxWidth + (contentWidth - sumMax)
            ELSE widths[i] = schemas[i].maxWidth

\* a call with spare room, an admitted hideable column among the visible ones,
\* and growable columns sharing the extra space in fractions of a pixel
C8_Witness ==
  /\ Returned /\ Branch = "slack"
  /\ \E i \in Hideables : schemas[i].key \in VisibleKeys /\ schemas[i].maxWidth > 0
  /\ \E i \in Indices : widths[i] % Unit # 0
  /\ \E i \in Indices :
       ~schemas[i].isAllowedToGrowBeyondMaxWidth /\ widths[i] = schemas[i].maxWidth

\* the items that are sized before the hideable item h: the non-hideable ones
\* and the hideable ones of lower shrinkPriority
Ahead(h) ==
  NonHideables \cup
    {i \in Hideables : schemas[i].shrinkPriority < schemas[h].shrinkPriority}

\* the width the admission pass of the current call gave to item i, 0 if hidden
Given(i) ==
  LET adm == admission(contentWidth, schemas)
  IN  IF \E j \in 1..Len(adm.visibleSchemas) : adm.visibleSchemas[j].key = schemas[i].key
      THEN adm.initialWidths[CHOOSE j \in 1..Len(adm.visibleSchemas) :
                               adm.visibleSchemas[j].key = schemas[i].key]
      ELSE 0

\* h was not admitted by the current call
Hidden(h) == h \in Hideables /\ schemas[h].key \notin VisibleKeys

\* h gets at least its minWidth when the same schemas are resolved at width
ShownAt(h, width) ==
  LET later == determineColumnWidths(width, schemas)
  IN  later.error = NoError /\ later.widths[h] >= schemas[h].minWidth

\* C9 (as claimed): a hideable item h hidden at contentWidth W gets at least its
\* minWidth at W + d, d = h.minWidth - s, s the slack left for h at its turn at W.
C9_ReintroductionAtShortfall ==
  Returned =>
    \A h \in Indices :
      Hidden(h) =>
        ShownAt(h, contentWidth + schemas[h].minWidth
                     - slackAtTurn(contentWidth, schemas, schemas[h].key))

\* C9 (amended): a hideable item h hidden at contentWidth W gets at least its
\* minWidth at W + d, d = h.minWidth - s + g, where g is the room the items
\* ahead of h can still take at W: the sum of maxWidth minus the width given,
\* over the non-hideable items and the hideable items of lower shrinkPriority.
\* W + d is h.minWidth plus the sum of the maxWidths of the items ahead of h.
C9_ReintroductionAmended ==
  Returned =>
    \A h \in Indices :
      Hidden(h) =>
        LET s == slackAtTurn(contentWidth, schemas, schemas[h].key)
            g == SumOver(Ahead(h), [i \in Indices |-> schemas[i].maxWidth - Given(i)])
            d == schemas[h].minWidth - s + g
        IN  /\ contentWidth + d = schemas[h].minWidth + SumOver(Ahead(h), maxWidths)
            /\ ShownAt(h, contentWidth + d)

\* a call that hid an item of positive minWidth behind a squeezed column and an
\* admitted hideable one, where widening by the shortfall alone does not show it
C9_Witness ==
  /\ Returned
  /\ \E h \in Indices :
       /\ Hidden(h) /\ schemas[h].minWidth > 0
       /\ \E i \in Ahead(h) \cap Hideables : Given(i) > 0
       /\ \E i \in Ahead(h) : 0 < Given(i) /\ Given(i) < schemas[i].maxWidth
       /\ ~ShownAt(h, contentWidth + schemas[h].minWidth
                        - slackAtTurn(contentWidth, schemas, schemas[h].key))

SlackAfterSizing == sizing(contentWidth, schemas).remainingContentWidth

\* C11 (as claimed): for a valid schema list the call returns, and a hideable
\* item (of positive minWidth) is shown if and only if the slack after sizing
\* the non-hideable items is > 0 and the slack remaining at its turn, every
\* earlier admitted item having deducted min(maxWidth, remaining slack) and
\* every item that did not fit having been skipped, is >= its minWidth.
C11_GreedyAdmission ==
  ValidSchemas =>
    /\ Returned
    /\ Len(widths) = Len(schemas)
    /\ \A h \in Hideables :
         schemas[h].minWidth > 0 =>
           (widths[h] # 0 <=>
              /\ SlackAfterSizing > 0
              /\ slackAtTurn(contentWidth, schemas, schemas[h].key)
                   >= schemas[h].minWidth)

\* the input positions of the visible schemas of the current call
VisibleIndices == {i \in Indices : schemas[i].key \in VisibleKeys}

\* i comes before j in the order the claim names: the non-hideable items by
\* ascending shrinkPriority, then the admitted hideable items by ascending
\* shrinkPriority
ComesBefore(i, j) ==
  \/ ~schemas[i].isAllowedToHide /\ schemas[j].isAllowedToHide
  \/ /\ schemas[i].isAllowedToHide = schemas[j].isAllowedToHide
     /\ schemas[i].shrinkPriority < schemas[j].shrinkPriority

\* C12: when sum(minWidth) <= contentWidth < sum(maxWidth) over the visible
\* set, some visible item k splits that order: every item before k gets exactly
\* maxWidth, every item after k exactly minWidth, k a width within
\* [minWidth, maxWidth], and the widths sum to exactly contentWidth.
C12_ConstrainedFirstCome ==
  (/\ Returned
   /\ SumSeq(minWidthsOf(Visible)) <= contentWidth
   /\ contentWidth < SumSeq(maxWidthsOf(Visible)))
  => /\ \E k \in VisibleIndices :
          /\ schemas[k].minWidth <= widths[k] /\ widths[k] <= schemas[k].maxWidth
          /\ \A i \in VisibleIndices :
               /\ ComesBefore(i, k) => widths[i] = schemas[i].maxWidth
               /\ ComesBefore(k, i) => widths[i] = schemas[i].minWidth
     /\ SumOver(VisibleIndices, widths) = contentWidth

\* a constrained call on three visible columns, an admitted hideable one among
\* them: the first at its maxWidth, the middle one strictly between its bounds,
\* the last held at a minWidth below its maxWidth
C12_Witness ==
  /\ Returned /\ Branch = "constrained"
  /\ Cardinality(VisibleIndices) = 3 /\ VisibleIndices \cap Hideables # {}
  /\ \E i, k, j \in VisibleIndices :
       /\ ComesBefore(i, k) /\ ComesBefore(k, j)
       /\ schemas[i].minWidth < widths[i] /\ widths[i] = schemas[i].maxWidth
       /\ schemas[k].minWidth < widths[k] /\ widths[k] < schemas[k].maxWidth
       /\ widths[j] = schemas[j].minWidth /\ widths[j] < schemas[j].maxWidth

\* the width item i gets once the pending re-render has run
widthsAfter == columnsSizes'.widths

C14_HideBeforeShrink ==
  (Returned /\ \E h \in Hideables : widths[h] # 0)
  => /\ \A i \in NonHideables : widths[i] >= schemas[i].maxWidth
     /\ Branch # "fallback"

\* a constrained call that shows a hideable column below its maxWidth while a
\* non-hideable column with room to shrink sits at its maxWidth
C14_Witness ==
  /\ Returned /\ Branch = "constrained"
  /\ \E h \in Hideables : 0 < widths[h] /\ widths[h] < schemas[h].maxWidth
  /\ \E i \in NonHideables :
       schemas[i].minWidth < schemas[i].maxWidth /\ widths[i] = schemas[i].maxWidth

====
